---- MODULE Spec2Model ----
(***************************************************************************)
(* Image selection engine of the image/poem voting system                  *)
(* (src/core/image_selection.py): six queues that each hold every catalog  *)
(* image, per-session seen/pending bookkeeping, the rating ledger and the  *)
(* timeout reclamation.  Every public method runs under the engine's one   *)
(* RLock, so each method is one atomic action of the model.                *)
(***************************************************************************)
EXTENDS Integers, Sequences, FiniteSets, TLC

\* ------------------------------------------------------------------ bounds

\* range(1, 7): the engine always builds six queues.
NumQueues == 6

\* The callers make at most MaxCalls calls of the engine's methods in a run.
MaxCalls == 5

\* The clock runs over 0..MaxTime; timeouts are compared in the same unit.
MaxTime == 1

\* submit_rating is not offered once an image has this many ratings.
MaxRatings == 2

\* The runs that empty the queues of an image make at most MaxDrainCalls calls.
MaxDrainCalls == 9

\* The catalogs of pairwise distinct poem titles hold at most MaxSoloImages images.
MaxSoloImages == 3

\* The requests served after a start of the service.
MaxStartupCalls == 2

\* The threads make at most MaxLockCalls calls between them.
MaxLockCalls == 2

\* The calls of the raters of the one-image catalog.
MaxRaterCalls == 14

\* The raters are not offered submit_rating once the image has this many
\* ratings: one more than there are queues.
MaxRaterRatings == 7

\* The submissions the threads serve between them.
MaxRaceRequests == 3

\* The raters that hold a pending image at the same time.
MaxActiveRaters == 2

\* The calls of the users of the four-image catalog.
MaxCrowdCalls == 5

\* The requests the clients of the service make.
MaxRequests == 6

\* The requests of the clients that start with any demographics.
MaxLoginRequests == 2

\* config.MAX_PER_USER, the default limit of evaluations per user (10 in
\* config.py), and the increment of POST /api/increase-limit (5), scaled down.
MAX_PER_USER == 1

LIMIT_INCREMENT == 1

\* The timeout_minutes values check_timeouts is called with.
TimeoutChoices == 0..(MaxTime - 1)

\* The callers of the engine.
SessionIds == {"u1", "u2"}

\* ImageRecord(path, poem_title): the catalog the engine is loaded from.
\* Two images share poem title "P".
ImageRecord(path, poem_title) == [path |-> path, poem_title |-> poem_title]

all_images == { ImageRecord("a1", "P"), ImageRecord("a2", "P"), ImageRecord("b", "Q") }

\* The orders random.shuffle may leave a queue in at construction.
InitialOrders ==
    { << ImageRecord("a1", "P"), ImageRecord("a2", "P"), ImageRecord("b", "Q") >>,
      << ImageRecord("b", "Q"), ImageRecord("a2", "P"), ImageRecord("a1", "P") >> }

\* The shuffles examined: queue 1 and queue 2 each start in any of the orders
\* above, the queues after them in the order of queue 2.
InitialQueues ==
    { qs \in [ 1..NumQueues -> InitialOrders ] :
        \A q \in 3..NumQueues : qs[q] = qs[2] }

Paths == { image.path : image \in all_images }

PoemTitles == { image.poem_title : image \in all_images }

\* Optional[...] = None for an image.
NoImage == [path |-> "", poem_title |-> ""]

VARIABLES
    queues,     \* self.queues: queue_num -> deque of ImageRecord
    sessions,   \* self.sessions: dict in insertion order, as a sequence of SessionState
    ratings,    \* self.ratings: image_path -> count
    now,        \* datetime.now()
    result,     \* the call that ran last and what it returned
    audit,      \* per caller: what get_next_image has returned to it so far
    confirms,   \* per image path: number of completed submit_rating calls
    calls,      \* number of calls made so far
    budget,     \* number of calls the callers make in this run
    images,     \* self.all_images: the ImageRecords the engine has loaded
    boot,       \* the image directory and how far the start of the service got
    lock,       \* self._lock: the thread that owns the RLock and how many times
    pc,         \* per thread: the method it is in and where in it
    handed,     \* the image paths CrowdGet has handed out to the users, in order
    users,      \* USERS_DB: the rows of the users table
    evaluations, \* EVALUATIONS_DB: the rows of the evaluations table, in order
    outcome     \* the dict the session function that ran last returned

vars == << queues, sessions, ratings, now, result, audit, confirms, calls,
           budget, images, boot, lock, pc, handed, users, evaluations, outcome >>

\* ------------------------------------------------------------ SessionState

\* SessionState.__init__
SessionState(session_id) ==
    [ session_id |-> session_id,
      seen_titles |-> {},
      seen_paths |-> {},
      pending_images |-> << >> ]

\* dict semantics of pending_images (a sequence of entries in insertion order)
PendingPaths(session) ==
    { session.pending_images[i].path : i \in 1..Len(session.pending_images) }

\* del self.pending_images[path]
DelPending(pending_images, path) ==
    SelectSeq(pending_images, LAMBDA e : e.path # path)

\* self.pending_images[path] = entry: a key already present keeps its place
SetPending(pending_images, entry) ==
    IF \E i \in 1..Len(pending_images) : pending_images[i].path = entry.path
    THEN [ i \in 1..Len(pending_images) |->
             IF pending_images[i].path = entry.path THEN entry ELSE pending_images[i] ]
    ELSE Append(pending_images, entry)

\* Mutation: add_seen that records the path but not the poem title.
add_seen_NoTitle(session, image) ==
    [ session EXCEPT
        !.seen_paths = @ \cup {image.path},
        !.pending_images = DelPending(@, image.path) ]

\* Mutation: add_seen that leaves the pending entry in place.
add_seen_KeepsPending(session, image) ==
    [ session EXCEPT
        !.seen_titles = @ \cup {image.poem_title},
        !.seen_paths = @ \cup {image.path} ]

\* SessionState.add_seen
add_seen(session, image) ==
    [ session EXCEPT
        !.seen_titles = @ \cup {image.poem_title},
        !.seen_paths = @ \cup {image.path},
        !.pending_images = DelPending(@, image.path) ]

\* SessionState.mark_checked
mark_checked(session, image) ==
    [ session EXCEPT !.seen_paths = @ \cup {image.path} ]

\* Mutation: add_pending that records nothing.
add_pending_Lost(session, image, queue_num) ==
    session

\* SessionState.add_pending
add_pending(session, image, queue_num) ==
    [ session EXCEPT
        !.pending_images =
            SetPending(@, [ path |-> image.path, image |-> image,
                            queue_num |-> queue_num, assigned_time |-> now ]) ]

\* ---------------------------------------------------- ImageSelectionSystem

HasSession(ss, session_id) ==
    \E i \in 1..Len(ss) : ss[i].session_id = session_id

SessionIndex(ss, session_id) ==
    CHOOSE i \in 1..Len(ss) : ss[i].session_id = session_id

\* get_session_state: the sessions dict after the get-or-create
get_session_state(ss, session_id) ==
    IF HasSession(ss, session_id) THEN ss ELSE Append(ss, SessionState(session_id))

\* The state of a caller, created or not.
StateOf(session_id) ==
    IF HasSession(sessions, session_id)
    THEN sessions[SessionIndex(sessions, session_id)]
    ELSE SessionState(session_id)

\* Mutation: SCENARIO A decided on the path instead of the poem title.
IsNewContent_ByPath(session, image) ==
    image.path \notin session.seen_paths

\* SCENARIO A test of get_next_image
IsNewContent(session, image) ==
    image.poem_title \notin session.seen_titles

\* SCENARIO B test of get_next_image
IsSoftConflict(session, image) ==
    image.path \notin session.seen_paths

\* Mutation: a scan that returns the head of the queue and leaves it queued.
ScanQueue_KeepsReturned(queue, session, attempts, max_attempts, queue_num) ==
    IF attempts >= max_attempts \/ Len(queue) = 0
    THEN [ found |-> FALSE, queue |-> queue, session |-> session, image |-> NoImage ]
    ELSE IF IsNewContent(session, Head(queue))
    THEN [ found |-> TRUE, queue |-> queue,
           session |-> add_pending(session, Head(queue), queue_num),
           image |-> Head(queue) ]
    ELSE [ found |-> FALSE, queue |-> queue, session |-> session,
           image |-> NoImage ]

\* Mutation: a scan that does not put back the image it popped and skipped.
ScanQueue_DropsSkipped(queue, session, attempts, max_attempts, queue_num) ==
    IF attempts >= max_attempts \/ Len(queue) = 0
    THEN [ found |-> FALSE, queue |-> queue, session |-> session, image |-> NoImage ]
    ELSE IF IsNewContent(session, Head(queue))
    THEN [ found |-> TRUE, queue |-> Tail(queue),
           session |-> add_pending(session, Head(queue), queue_num),
           image |-> Head(queue) ]
    ELSE [ found |-> FALSE, queue |-> Tail(queue), session |-> session,
           image |-> NoImage ]

\* The while loop of get_next_image over one queue.
RECURSIVE ScanQueue(_, _, _, _, _)
ScanQueue(queue, session, attempts, max_attempts, queue_num) ==
    IF attempts >= max_attempts \/ Len(queue) = 0
    THEN [ found |-> FALSE, queue |-> queue, session |-> session, image |-> NoImage ]
    ELSE LET image == Head(queue)
             rest == Tail(queue)
         IN  IF IsNewContent(session, image)
             THEN [ found |-> TRUE, queue |-> rest,
                    session |-> add_pending(session, image, queue_num),
                    image |-> image ]
             ELSE IF IsSoftConflict(session, image)
             THEN ScanQueue(Append(rest, image), mark_checked(session, image),
                            attempts + 1, max_attempts, queue_num)
             ELSE [ found |-> FALSE, queue |-> << image >> \o rest,
                    session |-> session, image |-> NoImage ]

\* The for loop of get_next_image over the queues, from queue_num on.
RECURSIVE TryQueues(_, _, _)
TryQueues(qs, session, queue_num) ==
    IF queue_num > NumQueues
    THEN [ queues |-> qs, session |-> session, image |-> NoImage, queue_num |-> 0 ]
    ELSE LET r == ScanQueue(qs[queue_num], session, 0, Len(qs[queue_num]), queue_num)
             qs2 == [ qs EXCEPT ![queue_num] = r.queue ]
         IN  IF r.found
             THEN [ queues |-> qs2, session |-> r.session, image |-> r.image,
                    queue_num |-> queue_num ]
             ELSE TryQueues(qs2, r.session, queue_num + 1)

\* Mutation: a scan that goes three times round the queue whatever it pops.
ScanPops_ThreeRounds(queue, session, attempts, max_attempts) ==
    3 * Len(queue)

\* The number of queue.popleft() calls the while loop of get_next_image makes
\* over one queue.
RECURSIVE ScanPops(_, _, _, _)
ScanPops(queue, session, attempts, max_attempts) ==
    IF attempts >= max_attempts \/ Len(queue) = 0
    THEN 0
    ELSE LET image == Head(queue)
             rest == Tail(queue)
         IN  IF IsNewContent(session, image)
             THEN 1
             ELSE IF IsSoftConflict(session, image)
             THEN 1 + ScanPops(Append(rest, image), mark_checked(session, image),
                               attempts + 1, max_attempts)
             ELSE 1

\* The number of queue.popleft() calls of one get_next_image, from queue_num on.
RECURSIVE TryPops(_, _, _)
TryPops(qs, session, queue_num) ==
    IF queue_num > NumQueues
    THEN 0
    ELSE LET r == ScanQueue(qs[queue_num], session, 0, Len(qs[queue_num]), queue_num)
             qs2 == [ qs EXCEPT ![queue_num] = r.queue ]
         IN  ScanPops(qs[queue_num], session, 0, Len(qs[queue_num]))
               + (IF r.found THEN 0 ELSE TryPops(qs2, r.session, queue_num + 1))

\* Mutation: the count is set to 1 on both branches.
IncrementRating_SetsOne(ledger, image_path) ==
    IF image_path \in DOMAIN ledger
    THEN [ ledger EXCEPT ![image_path] = 1 ]
    ELSE ledger @@ (image_path :> 1)

\* self.ratings[image_path] += 1, or = 1 for a path the ledger does not hold
IncrementRating(ledger, image_path) ==
    IF image_path \in DOMAIN ledger
    THEN [ ledger EXCEPT ![image_path] = @ + 1 ]
    ELSE ledger @@ (image_path :> 1)

\* Mutation: an entry counts as timed out from the age of the timeout on.
TimedOut_AtLeast(session, timeout_minutes) ==
    SelectSeq(session.pending_images,
              LAMBDA e : now - e.assigned_time >= timeout_minutes)

\* The timed-out entries of one session, in dict order.
TimedOut(session, timeout_minutes) ==
    SelectSeq(session.pending_images,
              LAMBDA e : now - e.assigned_time > timeout_minutes)

\* Mutation: a reclaim that leaves the pending entry in place.
ReclaimSession_KeepsPending(session, path) ==
    [ session EXCEPT !.seen_paths = @ \ {path} ]

\* The inner loop of check_timeouts / the body of handle_timeout on a session.
ReclaimSession(session, path) ==
    [ session EXCEPT
        !.pending_images = DelPending(@, path),
        !.seen_paths = @ \ {path} ]

\* Mutation: the image is put at the back of the queue.
AppendLeft_ToBack(qs, queue_num, image) ==
    [ qs EXCEPT ![queue_num] = Append(@, image) ]

\* self.queues[queue_num].appendleft(image)
AppendLeft(qs, queue_num, image) ==
    [ qs EXCEPT ![queue_num] = << image >> \o @ ]

\* check_timeouts on one session: every timed-out entry, in order.
RECURSIVE ReclaimAll(_, _, _)
ReclaimAll(qs, session, entries) ==
    IF entries = << >>
    THEN [ queues |-> qs, session |-> session ]
    ELSE LET e == Head(entries)
         IN  ReclaimAll(AppendLeft(qs, e.queue_num,
                                   ImageRecord(e.path, e.image.poem_title)),
                        ReclaimSession(session, e.path),
                        Tail(entries))

\* check_timeouts over self.sessions.values(), from session i on.
RECURSIVE SweepSessions(_, _, _, _)
SweepSessions(qs, ss, i, timeout_minutes) ==
    IF i > Len(ss)
    THEN [ queues |-> qs, sessions |-> ss ]
    ELSE LET r == ReclaimAll(qs, ss[i], TimedOut(ss[i], timeout_minutes))
         IN  SweepSessions(r.queues, [ ss EXCEPT ![i] = r.session ], i + 1,
                           timeout_minutes)

\* sum(self.ratings.values())
RECURSIVE SumRatings(_, _)
SumRatings(ledger, keys) ==
    IF keys = {} THEN 0
    ELSE LET k == CHOOSE x \in keys : TRUE
         IN  ledger[k] + SumRatings(ledger, keys \ {k})

\* ------------------------------------------------------------ observation

Result(op, session_id, image, queue_num) ==
    [ op |-> op, session |-> session_id, image |-> image, queue_num |-> queue_num ]

AuditInit ==
    [ returned_titles |-> {}, repeated |-> FALSE, awaiting |-> NoImage,
      disciplined |-> TRUE, exhausted |-> "never", confirmed |-> {} ]

\* The record of a caller after get_next_image returned image to it.  A caller
\* is disciplined while it has submitted every returned image before its next
\* get_next_image; the titles are followed only for a disciplined caller.
AuditGet(a, session, image) ==
    [ returned_titles |->
          IF ~a.disciplined \/ a.awaiting # NoImage THEN {}
          ELSE IF image = NoImage THEN a.returned_titles
          ELSE a.returned_titles \cup {image.poem_title},
      repeated |->
          /\ a.disciplined /\ a.awaiting = NoImage
          /\ a.repeated \/ (image # NoImage /\ image.poem_title \in a.returned_titles),
      awaiting |->
          IF ~a.disciplined \/ a.awaiting # NoImage THEN NoImage
          ELSE image,
      disciplined |-> a.disciplined /\ a.awaiting = NoImage,
      exhausted |->
          IF image # NoImage THEN a.exhausted
          ELSE IF a.exhausted \in {"all_seen", "all_seen_again"} THEN "all_seen_again"
          ELSE IF { i.poem_title : i \in images } \subseteq session.seen_titles THEN "all_seen"
          ELSE "unseen_left",
      confirmed |-> a.confirmed ]

\* The record of a caller after its submit_rating of image: the poem titles it
\* has confirmed, and whether the returned image is still to be submitted.
AuditSubmit(a, image) ==
    [ a EXCEPT
        !.awaiting = IF @ = image THEN NoImage ELSE @,
        !.confirmed = @ \cup {image.poem_title} ]

\* ---------------------------------------------------------------- catalog

\* A file of the image directory: its path and what the last underscore of its
\* name (extension removed) splits the name into; underscore is FALSE for a
\* name without underscore.
ImageFile(path, poem_title, image_type, underscore) ==
    [ path |-> path, poem_title |-> poem_title, image_type |-> image_type,
      underscore |-> underscore ]

valid_types == { "gpt", "mj", "nano", "seedream" }

\* The loop of build_catalog: one catalog entry per file named
\* {poem_title}_{type} with a valid type.
CatalogEntries(image_dir) ==
    { [ path |-> f.path, poem_title |-> f.poem_title,
        image_type |-> f.image_type ] :
        f \in { g \in image_dir.files :
                  g.underscore /\ g.image_type \in valid_types } }

\* Mutation: build_catalog that returns an empty catalog instead of raising.
build_catalog_NoCheck(image_dir) ==
    IF ~image_dir.exists
    THEN [ error |-> "FileNotFoundError", catalog |-> {} ]
    ELSE [ error |-> "", catalog |-> CatalogEntries(image_dir) ]

\* build_catalog: the catalog, or the error raised.
build_catalog(image_dir) ==
    IF ~image_dir.exists
    THEN [ error |-> "FileNotFoundError", catalog |-> {} ]
    ELSE IF CatalogEntries(image_dir) = {}
    THEN [ error |-> "RuntimeError", catalog |-> {} ]
    ELSE [ error |-> "", catalog |-> CatalogEntries(image_dir) ]

\* _load_images_from_catalog: one ImageRecord per entry with a poem title.
load_images_from_catalog(catalog) ==
    { ImageRecord(e.path, e.poem_title) :
        e \in { c \in catalog : c.poem_title # "" } }

\* The service running on the engine loaded from these images.
Booted(catalog) ==
    [ image_dir |->
          [ exists |-> TRUE,
            files |-> { ImageFile(i.path, i.poem_title, "gpt", TRUE) :
                          i \in catalog } ],
      status |-> "running" ]

\* ------------------------------------------------------------------- lock

\* The threads that serve requests.
Threads == { "t1", "t2" }

\* threading.RLock(), not owned.
FreeLock == [ owner |-> "none", count |-> 0 ]

\* A thread outside the engine.
IdlePc ==
    [ at |-> "idle", op |-> "", session |-> "", image |-> NoImage,
      queue_num |-> 0, timeout |-> 0 ]

\* Mutation: a lock that is always granted.
CanAcquire_Always(l, t) ==
    TRUE

\* Mutation: a lock that is not reentrant (threading.Lock).
CanAcquire_NotReentrant(l, t) ==
    l.owner = "none"

\* RLock.acquire returns at once for the owner and when the lock is free;
\* otherwise the thread waits.
CanAcquire(l, t) ==
    l.owner = "none" \/ l.owner = t

\* RLock after acquire by t.
Acquired(l, t) ==
    [ owner |-> t, count |-> l.count + 1 ]

\* RLock after release by its owner.
Released(l) ==
    IF l.count <= 1 THEN FreeLock ELSE [ l EXCEPT !.count = @ - 1 ]

\* A method called and run from its acquire to its release with no step of
\* another thread in between; no thread is left inside the engine.
Serial ==
    UNCHANGED << lock, pc >>

\* ---------------------------------------------------------------- actions

\* What the session functions and the databases hold; the engine reads and
\* writes none of it.
ServiceVars ==
    << handed, users, evaluations, outcome >>

\* The dict of a session function: the keys the functions set, a key that is
\* not set at its default.
Outcome(op, uid, status, message) ==
    [ op |-> op, uid |-> uid, status |-> status, message |-> message,
      remaining |-> 0, completed |-> 0, can_extend |-> FALSE, user_limit |-> 0,
      name_taken |-> FALSE, image |-> NoImage ]

\* Empty databases, no request served yet.
NoService ==
    /\ handed = << >>
    /\ users = << >>
    /\ evaluations = << >>
    /\ outcome = Outcome("", "", "", "")

\* One more call of an engine method, while the run's budget lasts.
Called ==
    /\ calls < budget
    /\ calls' = calls + 1
    /\ UNCHANGED << budget, images, boot >>
    /\ UNCHANGED ServiceVars

\* ImageSelectionSystem.__init__ from a catalog, before a run of n calls
Constructed(n) ==
    /\ queues \in InitialQueues
    /\ sessions = << >>
    /\ ratings = [ p \in Paths |-> 0 ]
    /\ now = 0
    /\ result = Result("init", "", NoImage, 0)
    /\ audit = [ u \in SessionIds |-> AuditInit ]
    /\ confirms = [ p \in Paths |-> 0 ]
    /\ calls = 0
    /\ budget = n
    /\ images = all_images
    /\ boot = Booted(all_images)
    /\ lock = FreeLock
    /\ pc = [ t \in Threads |-> IdlePc ]
    /\ NoService

Init == Constructed(MaxCalls)

get_next_image(session_id) ==
    LET ss == get_session_state(sessions, session_id)
        i == SessionIndex(ss, session_id)
        r == TryQueues(queues, ss[i], 1)
    IN  /\ Called
        /\ queues' = r.queues
        /\ sessions' = [ ss EXCEPT ![i] = r.session ]
        /\ result' = Result("get_next_image", session_id, r.image, r.queue_num)
        /\ audit' = [ audit EXCEPT ![session_id] = AuditGet(@, r.session, r.image) ]
        /\ UNCHANGED << ratings, now, confirms >>

\* The body of submit_rating.
SubmitRatingCall(session_id, image_path, poem_title) ==
    LET ss == get_session_state(sessions, session_id)
        i == SessionIndex(ss, session_id)
        image == ImageRecord(image_path, poem_title)
    IN  /\ Called
        /\ sessions' = [ ss EXCEPT ![i] = add_seen(@, image) ]
        /\ ratings' = IncrementRating(ratings, image_path)
        /\ result' = Result("submit_rating", session_id, image, 0)
        /\ audit' = [ audit EXCEPT ![session_id] = AuditSubmit(@, image) ]
        /\ confirms' = IncrementRating(confirms, image_path)
        /\ UNCHANGED << queues, now >>

\* submit_rating, offered while the image has fewer than MaxRatings ratings.
submit_rating(session_id, image_path, poem_title) ==
    /\ image_path \in DOMAIN ratings => ratings[image_path] < MaxRatings
    /\ SubmitRatingCall(session_id, image_path, poem_title)

handle_timeout(session_id, image_path, poem_title, original_queue) ==
    LET ss == get_session_state(sessions, session_id)
        i == SessionIndex(ss, session_id)
        image == ImageRecord(image_path, poem_title)
    IN  /\ Called
        /\ sessions' = [ ss EXCEPT ![i] = ReclaimSession(@, image_path) ]
        /\ queues' = AppendLeft(queues, original_queue, image)
        /\ result' = Result("handle_timeout", session_id, image, original_queue)
        /\ UNCHANGED << ratings, now, audit, confirms >>

check_timeouts(timeout_minutes) ==
    LET r == SweepSessions(queues, sessions, 1, timeout_minutes)
    IN  /\ Called
        /\ queues' = r.queues
        /\ sessions' = r.sessions
        /\ result' = Result("check_timeouts", "", NoImage, 0)
        /\ UNCHANGED << ratings, now, audit, confirms >>

get_statistics ==
    /\ Called
    /\ result' = Result("get_statistics", "", NoImage, SumRatings(ratings, DOMAIN ratings))
    /\ UNCHANGED << queues, sessions, ratings, now, audit, confirms >>

\* Time passes.
Tick ==
    /\ now < MaxTime
    /\ now' = now + 1
    /\ UNCHANGED << queues, sessions, ratings, result, audit, confirms, calls,
                    budget, images, boot, lock, pc >>
    /\ UNCHANGED ServiceVars

GetNextImage ==
    /\ Serial
    /\ \E u \in SessionIds : get_next_image(u)

SubmitRating ==
    /\ Serial
    /\ \E u \in SessionIds : \E image \in images :
          submit_rating(u, image.path, image.poem_title)

\* handle_timeout is called for an assignment of the session that timed out.
HandleTimeout ==
    /\ Serial
    /\ \E u \in SessionIds :
          \E k \in 1..Len(StateOf(u).pending_images) :
              LET e == StateOf(u).pending_images[k]
              IN  handle_timeout(u, e.path, e.image.poem_title, e.queue_num)

CheckTimeouts ==
    /\ Serial
    /\ \E t \in TimeoutChoices : check_timeouts(t)

GetStatistics ==
    /\ Serial
    /\ get_statistics

Next ==
    \/ GetNextImage
    \/ SubmitRating
    \/ HandleTimeout
    \/ CheckTimeouts
    \/ GetStatistics
    \/ Tick

Spec == Init /\ [][Next]_vars

\* submit_rating called only for an image that is pending for the caller, as
\* submit_evaluation does for the image the caller was shown.
SubmitPending ==
    /\ Serial
    /\ \E u \in SessionIds :
          \E k \in 1..Len(StateOf(u).pending_images) :
              LET e == StateOf(u).pending_images[k]
              IN  submit_rating(u, e.path, e.image.poem_title)

NextContract ==
    \/ GetNextImage
    \/ SubmitPending
    \/ HandleTimeout
    \/ CheckTimeouts
    \/ GetStatistics
    \/ Tick

\* The runs in which every submit_rating confirms a pending assignment.
SpecContract == Init /\ [][NextContract]_vars

\* The runs of get_next_image and submit_rating of pending assignments alone,
\* long enough for an image to leave all six queues.
NextDrain ==
    \/ GetNextImage
    \/ SubmitPending

InitDrain == Constructed(MaxDrainCalls)

SpecDrain == InitDrain /\ [][NextDrain]_vars

\* An image the client names in its request that the catalog does not hold
\* (image_path and poem_title of POST /api/submit are the client's).
UnknownImage == ImageRecord("x", "X")

SubmitUnknown ==
    /\ Serial
    /\ \E u \in SessionIds :
          submit_rating(u, UnknownImage.path, UnknownImage.poem_title)

\* The runs in which a client may also submit an image the catalog does not
\* hold.
NextUnknown ==
    \/ GetNextImage
    \/ SubmitPending
    \/ SubmitUnknown

SpecUnknown == Init /\ [][NextUnknown]_vars

\* --------------------------------------------- a catalog of distinct poems

\* Images of pairwise distinct poem titles, and the catalogs made of the first
\* n of them.
SoloPool ==
    << ImageRecord("c1", "R"), ImageRecord("c2", "S"), ImageRecord("c3", "T"),
       ImageRecord("c4", "U"), ImageRecord("c5", "V") >>

SoloCatalogs ==
    { { SoloPool[i] : i \in 1..n } : n \in 1..MaxSoloImages }

\* random.shuffle of a deque of the catalog: every order of its images.
Shuffles(catalog) ==
    { order \in [ 1..Cardinality(catalog) -> catalog ] :
        \A i, j \in 1..Cardinality(catalog) : order[i] = order[j] => i = j }

\* The shuffles examined: queue 1 and queue 2 each start in any order, the
\* queues after them in the order of queue 2.
SoloQueues(catalog) ==
    { [ q \in 1..NumQueues |-> IF q = 1 THEN first ELSE second ] :
        first \in Shuffles(catalog), second \in Shuffles(catalog) }

\* ImageSelectionSystem.__init__ from a catalog of n images of n poems, before
\* the n+1 get_next_image calls and n submit_rating calls of one user.
InitSolo ==
    \E catalog \in SoloCatalogs :
        /\ images = catalog
        /\ queues \in SoloQueues(catalog)
        /\ sessions = << >>
        /\ ratings = [ p \in { i.path : i \in catalog } |-> 0 ]
        /\ now = 0
        /\ result = Result("init", "", NoImage, 0)
        /\ audit = [ u \in SessionIds |-> AuditInit ]
        /\ confirms = [ p \in { i.path : i \in catalog } |-> 0 ]
        /\ calls = 0
        /\ budget = 2 * Cardinality(catalog) + 1
        /\ boot = Booted(catalog)
        /\ lock = FreeLock
        /\ pc = [ t \in Threads |-> IdlePc ]
        /\ NoService

\* The user asks for the next image when it holds none ...
SoloGet ==
    /\ Serial
    /\ PendingPaths(StateOf("u1")) = {}
    /\ get_next_image("u1")

\* ... and submits the image it holds.
SoloSubmit ==
    /\ Serial
    /\ \E k \in 1..Len(StateOf("u1").pending_images) :
          LET e == StateOf("u1").pending_images[k]
          IN  submit_rating("u1", e.path, e.image.poem_title)

NextSolo ==
    \/ SoloGet
    \/ SoloSubmit

\* One user alone, alternating get_next_image and submit_rating.
SpecSolo == InitSolo /\ [][NextSolo]_vars

\* ------------------------------------------------------------------ restart

\* get_all_image_rating_counts: SELECT image_path, COUNT(*) ... GROUP BY
\* image_path over the evaluations table.  submit_evaluation writes one row
\* right before each submit_rating call, so the table holds confirms[p] rows
\* of path p; a path without rows is not in the result.
get_all_image_rating_counts ==
    [ p \in { q \in DOMAIN confirms : confirms[q] > 0 } |-> confirms[p] ]

\* The record of a caller after a restart: the assignment it was waiting to
\* submit is gone with the sessions; what it confirmed is in the database.
AuditRestart(a) ==
    [ a EXCEPT !.awaiting = NoImage ]

\* The process is restarted: ImageSelectionSystem.__init__ runs again on the
\* same catalog.  The evaluations database and the clock go on.
Restart ==
    /\ queues' \in InitialQueues
    /\ sessions' = << >>
    /\ ratings' = [ p \in Paths |-> 0 ]
    /\ images' = all_images
    /\ result' = Result("init", "", NoImage, 0)
    /\ audit' = [ u \in SessionIds |-> AuditRestart(audit[u]) ]
    /\ UNCHANGED << now, confirms, calls, budget, boot, lock, pc >>
    /\ UNCHANGED ServiceVars

NextRestart ==
    \/ GetNextImage
    \/ SubmitPending
    \/ HandleTimeout
    \/ CheckTimeouts
    \/ GetStatistics
    \/ Tick
    \/ Restart

\* The runs of SpecContract with restarts of the process in between.
SpecRestart == Init /\ [][NextRestart]_vars

\* ------------------------------------------------------------------ startup

\* The files an image directory may hold: two well-named images, a name without
\* underscore, a name of an unknown type and a name with nothing before the
\* underscore.
DirFiles ==
    { ImageFile("a1", "P", "gpt", TRUE),
      ImageFile("b", "Q", "mj", TRUE),
      ImageFile("n", "", "", FALSE),
      ImageFile("d", "P", "draft", TRUE),
      ImageFile("e", "", "gpt", TRUE) }

ImageDirs ==
    { [ exists |-> FALSE, files |-> {} ] }
        \cup { [ exists |-> TRUE, files |-> fs ] : fs \in SUBSET DirFiles }

\* The service before its modules are imported, on one of these image
\* directories and with n requests to come: no catalog, no engine.
Unstarted(image_dirs, n) ==
    /\ boot \in { [ image_dir |-> d, status |-> "starting" ] : d \in image_dirs }
    /\ queues = << >>
    /\ sessions = << >>
    /\ ratings = << >>
    /\ images = {}
    /\ now = 0
    /\ result = Result("import", "", NoImage, 0)
    /\ audit = [ u \in SessionIds |-> AuditInit ]
    /\ confirms = << >>
    /\ calls = 0
    /\ budget = n
    /\ lock = FreeLock
    /\ pc = [ t \in Threads |-> IdlePc ]
    /\ NoService

InitStartup == Unstarted(ImageDirs, MaxStartupCalls)

\* The import of the service modules: CATALOG = build_catalog(), then the engine
\* is constructed from CATALOG.  An error raised by build_catalog ends the
\* import; no engine is constructed.
Startup ==
    LET built == build_catalog(boot.image_dir)
        loaded == load_images_from_catalog(built.catalog)
    IN  /\ boot.status = "starting"
        /\ IF built.error # ""
           THEN /\ boot' = [ boot EXCEPT !.status = "failed" ]
                /\ UNCHANGED << queues, sessions, ratings, images, result,
                                confirms >>
           ELSE /\ boot' = [ boot EXCEPT !.status = "running" ]
                /\ images' = loaded
                /\ ratings' = [ p \in { i.path : i \in loaded } |-> 0 ]
                /\ queues' \in SoloQueues(loaded)
                /\ sessions' = << >>
                /\ result' = Result("init", "", NoImage, 0)
                /\ confirms' = [ p \in { i.path : i \in loaded } |-> 0 ]
        /\ UNCHANGED << now, audit, calls, budget, lock, pc >>
        /\ UNCHANGED ServiceVars

\* Requests are served by the engine instance once there is one.
ServeGetNextImage ==
    /\ boot.status = "running"
    /\ GetNextImage

ServeSubmitPending ==
    /\ boot.status = "running"
    /\ SubmitPending

NextStartup ==
    \/ Startup
    \/ ServeGetNextImage
    \/ ServeSubmitPending

SpecStartup == InitStartup /\ [][NextStartup]_vars

\* ---------------------------------------------------------------- threads

EngineVars ==
    << queues, sessions, ratings, now, result, audit, confirms, calls, budget,
       images, boot, handed, users, evaluations, outcome >>

\* The methods whose body starts with self.get_session_state(session_id),
\* which takes the lock again.
Nests == { "get_next_image", "submit_rating", "handle_timeout" }

\* A thread between the acquire and the release of its method.
InEngine(t) ==
    pc[t].at \in { "get_session_state", "nested", "body", "release" }

\* The calls a thread can start: get_next_image for a user, submit_rating and
\* handle_timeout for an image a user holds, check_timeouts, get_statistics.
Requests ==
    { [ IdlePc EXCEPT !.at = "acquire", !.op = "get_next_image", !.session = u ] :
        u \in SessionIds }
    \cup
    { [ IdlePc EXCEPT !.at = "acquire", !.op = o, !.session = r[1],
                      !.image = r[2].image, !.queue_num = r[2].queue_num ] :
        o \in { "submit_rating", "handle_timeout" },
        r \in { x \in SessionIds \X UNION { { StateOf(u).pending_images[k] :
                                                k \in 1..Len(StateOf(u).pending_images) } :
                                              u \in SessionIds } :
                  \E k \in 1..Len(StateOf(x[1]).pending_images) :
                      StateOf(x[1]).pending_images[k] = x[2] } }
    \cup
    { [ IdlePc EXCEPT !.at = "acquire", !.op = "check_timeouts", !.timeout = m ] :
        m \in TimeoutChoices }
    \cup
    { [ IdlePc EXCEPT !.at = "acquire", !.op = "get_statistics" ] }

\* The calls under way that will submit a rating of the image.
SubmitsUnderWay(image) ==
    { t \in Threads : pc[t].op = "submit_rating" /\ pc[t].image = image }

\* A request arrives: the thread calls the method and comes to its
\* "with self._lock".
Call ==
    \E t \in Threads : \E request \in Requests :
        /\ boot.status = "running"
        /\ pc[t].at = "idle"
        /\ calls + Cardinality({ s \in Threads : pc[s].at # "idle" }) < budget
        /\ request.op = "submit_rating" =>
              ratings[request.image.path]
                  + Cardinality(SubmitsUnderWay(request.image)) < MaxRatings
        /\ pc' = [ pc EXCEPT ![t] = request ]
        /\ UNCHANGED lock
        /\ UNCHANGED EngineVars

\* with self._lock: of the method
Acquire ==
    \E t \in Threads :
        /\ pc[t].at = "acquire"
        /\ CanAcquire(lock, t)
        /\ lock' = Acquired(lock, t)
        /\ pc' = [ pc EXCEPT ![t].at =
                     IF pc[t].op \in Nests THEN "get_session_state" ELSE "body" ]
        /\ UNCHANGED EngineVars

\* with self._lock: of get_session_state, called by a thread that holds the lock
EnterSessionState ==
    \E t \in Threads :
        /\ pc[t].at = "get_session_state"
        /\ CanAcquire(lock, t)
        /\ lock' = Acquired(lock, t)
        /\ pc' = [ pc EXCEPT ![t].at = "nested" ]
        /\ UNCHANGED EngineVars

\* get_session_state returns.
LeaveSessionState ==
    \E t \in Threads :
        /\ pc[t].at = "nested"
        /\ lock' = Released(lock)
        /\ pc' = [ pc EXCEPT ![t].at = "body" ]
        /\ UNCHANGED EngineVars

\* The body of the method.
Body ==
    \E t \in Threads :
        /\ pc[t].at = "body"
        /\ \/ /\ pc[t].op = "get_next_image"
              /\ get_next_image(pc[t].session)
           \/ /\ pc[t].op = "submit_rating"
              /\ submit_rating(pc[t].session, pc[t].image.path,
                               pc[t].image.poem_title)
           \/ /\ pc[t].op = "handle_timeout"
              /\ handle_timeout(pc[t].session, pc[t].image.path,
                                pc[t].image.poem_title, pc[t].queue_num)
           \/ /\ pc[t].op = "check_timeouts"
              /\ check_timeouts(pc[t].timeout)
           \/ /\ pc[t].op = "get_statistics"
              /\ get_statistics
        /\ pc' = [ pc EXCEPT ![t].at = "release" ]
        /\ UNCHANGED lock

\* The end of the with block: the method returns.
Release ==
    \E t \in Threads :
        /\ pc[t].at = "release"
        /\ lock' = Released(lock)
        /\ pc' = [ pc EXCEPT ![t] = IdlePc ]
        /\ UNCHANGED EngineVars

InitLock == Unstarted({ Booted(all_images).image_dir }, MaxLockCalls)

NextLock ==
    \/ Startup
    \/ Call
    \/ Acquire
    \/ EnterSessionState
    \/ LeaveSessionState
    \/ Body
    \/ Release

\* The engine constructed at the start of the service and then called from the
\* threads, every step of a method a step of its own.
SpecLock == InitLock /\ [][NextLock]_vars

\* A thread that can take a step is not held back for ever.
SpecLockFair ==
    /\ SpecLock
    /\ WF_vars(Acquire)
    /\ WF_vars(EnterSessionState)
    /\ WF_vars(LeaveSessionState)
    /\ WF_vars(Body)
    /\ WF_vars(Release)

\* -------------------------------------------------------------------- crowd

\* get_next_image as a function of the engine state it is called in: the
\* queues and sessions it leaves and what it returns.
GetNextImageOn(qs, ss, session_id) ==
    LET ss1 == get_session_state(ss, session_id)
        i == SessionIndex(ss1, session_id)
        r == TryQueues(qs, ss1[i], 1)
    IN  [ queues |-> r.queues,
          sessions |-> [ ss1 EXCEPT ![i] = r.session ],
          image |-> r.image,
          queue_num |-> r.queue_num ]

\* submit_rating as a function of the engine state it is called in: the
\* sessions and the ledger it leaves.
SubmitRatingOn(ss, ledger, session_id, image) ==
    LET ss1 == get_session_state(ss, session_id)
        i == SessionIndex(ss1, session_id)
    IN  [ sessions |-> [ ss1 EXCEPT ![i] = add_seen(@, image) ],
          ratings |-> IncrementRating(ledger, image.path) ]

\* A catalog of four images, three of them of poem "P".
crowd_images == all_images \cup { ImageRecord("a3", "P") }

\* ImageSelectionSystem.__init__ from this catalog, before a run of
\* MaxCrowdCalls calls.
InitCrowd ==
    /\ images = crowd_images
    /\ queues \in SoloQueues(crowd_images)
    /\ sessions = << >>
    /\ ratings = [ p \in { i.path : i \in crowd_images } |-> 0 ]
    /\ now = 0
    /\ result = Result("init", "", NoImage, 0)
    /\ audit = [ u \in SessionIds |-> AuditInit ]
    /\ confirms = [ p \in { i.path : i \in crowd_images } |-> 0 ]
    /\ calls = 0
    /\ budget = MaxCrowdCalls
    /\ boot = Booted(crowd_images)
    /\ lock = FreeLock
    /\ pc = [ t \in Threads |-> IdlePc ]
    /\ NoService

\* A user who holds no image (it starts, or it has submitted the image it was
\* shown) is given its next image by get_next_image; the path handed out is
\* noted in handed.
CrowdGet ==
    \E u \in SessionIds :
        LET r == GetNextImageOn(queues, sessions, u)
        IN  /\ Serial
            /\ PendingPaths(StateOf(u)) = {}
            /\ calls < budget
            /\ calls' = calls + 1
            /\ queues' = r.queues
            /\ sessions' = r.sessions
            /\ result' = Result("get_next_image", u, r.image, r.queue_num)
            /\ audit' = [ audit EXCEPT ![u] =
                            AuditGet(@, StateOf(u)', r.image) ]
            /\ handed' = IF r.image = NoImage THEN handed
                         ELSE Append(handed, r.image.path)
            /\ UNCHANGED << ratings, now, confirms, budget, images, boot,
                            users, evaluations, outcome >>

\* ... and submits its evaluation of the image it was shown (SubmitPending).
NextCrowd ==
    \/ CrowdGet
    \/ SubmitPending

\* Users who start and then evaluate image after image, at the same time; no
\* assignment times out.
SpecCrowd == InitCrowd /\ [][NextCrowd]_vars

\* ------------------------------------------------------------------ service

\* None where Python has an int or None (user_age, user_limit).
None == -1

\* The nicknames, ages, genders and educations the clients send.
UidInputs == { "", " ", "u1", " u1 ", "u2" }

AgeInputs == { None, 0, 30, 31 }

GenderInputs == { "", " ", "F", " F ", "f" }

EducationInputs == { "", "BA", " BA ", "MA" }

\* str.strip() on these strings.
Strip(s) ==
    CASE s = " " -> ""
      [] s = " u1 " -> "u1"
      [] s = " F " -> "F"
      [] s = " BA " -> "BA"
      [] OTHER -> s

\* A row of the users table.
UserRow(user_age, user_gender, user_education, user_limit) ==
    [ age |-> user_age, gender |-> user_gender, education |-> user_education,
      user_limit |-> user_limit ]

\* A row of the evaluations table.
EvaluationRow(uid, user_age, user_gender, user_education, image) ==
    [ user_id |-> uid, age |-> user_age, gender |-> user_gender,
      education |-> user_education, image_path |-> image.path,
      poem_title |-> image.poem_title ]

\* The rows of the evaluations table with this user_id, in order.
RowsOf(evs, uid) ==
    SelectSeq(evs, LAMBDA row : row.user_id = uid)

\* user_count: SELECT COUNT(*) FROM evaluations WHERE user_id=?
user_count(evs, uid) ==
    Len(RowsOf(evs, uid))

\* get_user_limit: the user_limit of the users row, None without a row or with
\* NULL in it.
get_user_limit(us, uid) ==
    IF uid \in DOMAIN us THEN us[uid].user_limit ELSE None

\* Mutation: remaining that does not count the evaluations made.
remaining_NoCount(us, evs, uid) ==
    IF get_user_limit(us, uid) # None THEN get_user_limit(us, uid)
    ELSE MAX_PER_USER

\* Mutation: remaining that does not read the per-user limit.
remaining_DefaultOnly(us, evs, uid) ==
    IF MAX_PER_USER - user_count(evs, uid) > 0
    THEN MAX_PER_USER - user_count(evs, uid) ELSE 0

\* remaining: max(0, limit - user_count(uid))
remaining(us, evs, uid) ==
    LET user_limit == get_user_limit(us, uid)
        limit == IF user_limit # None THEN user_limit ELSE MAX_PER_USER
    IN  IF limit - user_count(evs, uid) > 0
        THEN limit - user_count(evs, uid) ELSE 0

\* Mutation: the limit reported is always the default.
LimitOrDefault_DefaultOnly(us, uid) == MAX_PER_USER

\* get_user_limit(uid) or MAX_PER_USER
LimitOrDefault(us, uid) ==
    IF get_user_limit(us, uid) = None \/ get_user_limit(us, uid) = 0
    THEN MAX_PER_USER ELSE get_user_limit(us, uid)

\* get_user_demographics returned None.
NoDemographics ==
    [ found |-> FALSE, age |-> None, gender |-> "", education |-> "" ]

\* get_user_demographics: from the users row, else from the first evaluations
\* row of the user, else None.
get_user_demographics(us, evs, uid) ==
    IF uid \in DOMAIN us
    THEN [ found |-> TRUE, age |-> us[uid].age, gender |-> us[uid].gender,
           education |-> us[uid].education ]
    ELSE IF RowsOf(evs, uid) # << >>
    THEN [ found |-> TRUE, age |-> RowsOf(evs, uid)[1].age,
           gender |-> RowsOf(evs, uid)[1].gender,
           education |-> RowsOf(evs, uid)[1].education ]
    ELSE NoDemographics

\* store_user_demographics: INSERT OR REPLACE INTO users(user_id, user_age,
\* user_gender, user_education, created_at); user_limit is NULL in the new row.
store_user_demographics(us, uid, user_age, user_gender, user_education) ==
    [ u \in DOMAIN us \cup { uid } |->
        IF u = uid THEN UserRow(user_age, user_gender, user_education, None)
        ELSE us[u] ]

\* new_limit of increase_user_limit
NewLimit(us, uid, increment) ==
    ( IF get_user_limit(us, uid) # None THEN get_user_limit(us, uid)
      ELSE MAX_PER_USER ) + increment

\* increase_user_limit: UPDATE users SET user_limit = new_limit WHERE user_id
\* = uid; no row, no change.
increase_user_limit(us, uid, increment) ==
    IF uid \in DOMAIN us
    THEN [ us EXCEPT ![uid].user_limit = NewLimit(us, uid, increment) ]
    ELSE us

\* get_evaluation_item(uid): the image get_next_image assigns to the user, or
\* None.
get_evaluation_item(qs, ss, uid) ==
    GetNextImageOn(qs, ss, uid)

\* One more request served, while the run's budget lasts.
Requested ==
    /\ Serial
    /\ calls < budget
    /\ calls' = calls + 1
    /\ UNCHANGED << now, budget, images, boot, handed >>

\* The demographics a client sends with an evaluation: those of a start, or
\* none.
SubmitDemographics ==
    { [ age |-> 30, gender |-> "F", education |-> "BA" ],
      [ age |-> None, gender |-> "", education |-> "" ] }

\* Mutation: the end that reports an exhausted engine as an error.
NextItem_ExhaustionAsError(op, uid, us, evs, qs, ss, welcome) ==
    LET rem == remaining(us, evs, uid)
        user_limit == LimitOrDefault(us, uid)
        completed == user_count(evs, uid)
        item == get_evaluation_item(qs, ss, uid)
    IN  IF rem <= 0
        THEN [ outcome |-> [ Outcome(op, uid, "limit_reached", "limit_reached")
                               EXCEPT !.completed = completed,
                                      !.can_extend = TRUE,
                                      !.user_limit = user_limit ],
               fetched |-> FALSE, queues |-> qs, sessions |-> ss,
               image |-> NoImage, queue_num |-> 0 ]
        ELSE [ outcome |->
                   IF item.image = NoImage
                   THEN [ Outcome(op, uid, "error", "all_images_seen")
                            EXCEPT !.remaining = rem, !.completed = completed ]
                   ELSE [ Outcome(op, uid, "success", welcome)
                            EXCEPT !.remaining = rem, !.user_limit = user_limit,
                                   !.image = item.image ],
               fetched |-> TRUE, queues |-> item.queues,
               sessions |-> item.sessions, image |-> item.image,
               queue_num |-> item.queue_num ]

\* The end of start_session and submit_evaluation, from the limit test on:
\* limit_reached, or get_evaluation_item and then all_images_seen or success.
\* It runs on the databases us, evs and the engine state qs, ss the function has
\* made so far; fetched tells whether get_evaluation_item was called.
NextItem(op, uid, us, evs, qs, ss, welcome) ==
    LET rem == remaining(us, evs, uid)
        user_limit == LimitOrDefault(us, uid)
        completed == user_count(evs, uid)
        item == get_evaluation_item(qs, ss, uid)
    IN  IF rem <= 0
        THEN [ outcome |-> [ Outcome(op, uid, "limit_reached", "limit_reached")
                               EXCEPT !.completed = completed,
                                      !.can_extend = TRUE,
                                      !.user_limit = user_limit ],
               fetched |-> FALSE, queues |-> qs, sessions |-> ss,
               image |-> NoImage, queue_num |-> 0 ]
        ELSE [ outcome |->
                   IF item.image = NoImage
                   THEN [ Outcome(op, uid, "all_images_seen", "all_images_seen")
                            EXCEPT !.remaining = rem, !.completed = completed ]
                   ELSE [ Outcome(op, uid, "success", welcome)
                            EXCEPT !.remaining = rem, !.user_limit = user_limit,
                                   !.image = item.image ],
               fetched |-> TRUE, queues |-> item.queues,
               sessions |-> item.sessions, image |-> item.image,
               queue_num |-> item.queue_num ]

\* The record of the caller after the engine calls of a session function:
\* submit_rating of rated (if any), then get_next_image (if made).
AuditItem(a, uid, rated, n) ==
    LET b == IF rated = NoImage THEN a ELSE AuditSubmit(a, rated)
    IN  IF n.fetched
        THEN AuditGet(b, n.sessions[SessionIndex(n.sessions, uid)], n.image)
        ELSE b

\* The engine variables after these calls.
EngineAfter(uid, rated, n) ==
    /\ queues' = n.queues
    /\ sessions' = n.sessions
    /\ result' = IF n.fetched
                 THEN Result("get_next_image", uid, n.image, n.queue_num)
                 ELSE IF rated = NoImage THEN result
                 ELSE Result("submit_rating", uid, rated, 0)
    /\ audit' = [ audit EXCEPT ![uid] = AuditItem(@, uid, rated, n) ]

\* An error dict of start_session.
StartError(uid, message) ==
    Outcome("start_session", uid, "error", message)

\* Mutation: the validation that looks at the gender before the age.
MissingField_GenderFirst(uid_input, user_age, user_gender, user_education) ==
    IF Strip(uid_input) = "" THEN "nickname"
    ELSE IF Strip(user_gender) = "" THEN "gender"
    ELSE IF user_age = None \/ user_age <= 0 THEN "age"
    ELSE IF Strip(user_education) = "" THEN "education"
    ELSE ""

\* The validation of start_session: the field its first failing test asks
\* for, "" if every test passes.
MissingField(uid_input, user_age, user_gender, user_education) ==
    IF Strip(uid_input) = "" THEN "nickname"
    ELSE IF user_age = None \/ user_age <= 0 THEN "age"
    ELSE IF Strip(user_gender) = "" THEN "gender"
    ELSE IF Strip(user_education) = "" THEN "education"
    ELSE ""

\* Mutation: the comparison that leaves the education out.
DemographicsMatch_NoEducation(existing_demo, user_age, user_gender, user_education) ==
    /\ existing_demo.age = user_age
    /\ Strip(existing_demo.gender) = Strip(user_gender)

\* age_match and gender_match and education_match of start_session
DemographicsMatch(existing_demo, user_age, user_gender, user_education) ==
    LET age_match == existing_demo.age = user_age
        gender_match == Strip(existing_demo.gender) = Strip(user_gender)
        education_match ==
            Strip(existing_demo.education) = Strip(user_education)
    IN  age_match /\ gender_match /\ education_match

start_session(uid_input, user_age, user_gender, user_education) ==
    LET uid == Strip(uid_input)
        missing == MissingField(uid_input, user_age, user_gender, user_education)
        existing_demo == get_user_demographics(users, evaluations, uid)
        stored == store_user_demographics(users, uid, user_age, user_gender,
                                          user_education)
        resumed == NextItem("start_session", uid, users, evaluations,
                            queues, sessions, "welcome_back")
        begun == NextItem("start_session", uid, stored, evaluations,
                          queues, sessions, "welcome")
    IN  /\ Requested
        /\ UNCHANGED << evaluations, ratings, confirms >>
        /\ IF missing # ""
           THEN /\ outcome' = StartError(uid, missing)
                /\ UNCHANGED << users, queues, sessions, result, audit >>
           ELSE IF existing_demo.found
           THEN IF DemographicsMatch(existing_demo, user_age, user_gender,
                                     user_education)
                THEN /\ outcome' = resumed.outcome
                     /\ EngineAfter(uid, NoImage, resumed)
                     /\ UNCHANGED users
                ELSE /\ outcome' = [ StartError(uid, "name_taken")
                                       EXCEPT !.name_taken = TRUE ]
                     /\ UNCHANGED << users, queues, sessions, result, audit >>
           ELSE /\ users' = stored
                /\ outcome' = begun.outcome
                /\ EngineAfter(uid, NoImage, begun)

\* An error dict of submit_evaluation.
SubmitError(uid, message, rem) ==
    [ Outcome("submit_evaluation", uid, "error", message)
        EXCEPT !.remaining = rem ]

\* write_evaluation: INSERT INTO evaluations
write_evaluation(evs, row) ==
    Append(evs, row)

\* submit_evaluation from write_evaluation to its return: the row is written,
\* the rating submitted to the engine and the next item fetched.
SubmitWrites(uid, user_age, user_gender, user_education, image) ==
    LET written == write_evaluation(evaluations,
                       EvaluationRow(uid, user_age, user_gender,
                                     user_education, image))
        rated == SubmitRatingOn(sessions, ratings, uid, image)
        next == NextItem("submit_evaluation", uid, users, written,
                         queues, rated.sessions, "submitted")
    IN  /\ evaluations' = written
        /\ ratings' = rated.ratings
        /\ confirms' = IncrementRating(confirms, image.path)
        /\ outcome' = next.outcome
        /\ EngineAfter(uid, image, next)

submit_evaluation(uid, user_age, user_gender, user_education, image, phase1_choice, answered) ==
    LET rem_before == remaining(users, evaluations, uid)
    IN  /\ Requested
        /\ UNCHANGED users
        /\ IF uid = ""
           THEN /\ outcome' = SubmitError(uid, "nickname", 0)
                /\ UNCHANGED << evaluations, ratings, confirms, queues,
                                sessions, result, audit >>
           ELSE IF phase1_choice = ""
           THEN /\ outcome' = SubmitError(uid, "phase1", rem_before)
                /\ UNCHANGED << evaluations, ratings, confirms, queues,
                                sessions, result, audit >>
           ELSE IF ~answered
           THEN /\ outcome' = SubmitError(uid, "phase2", rem_before)
                /\ UNCHANGED << evaluations, ratings, confirms, queues,
                                sessions, result, audit >>
           ELSE IF rem_before <= 0
           THEN /\ outcome' = [ SubmitError(uid, "limit", 0)
                                  EXCEPT !.user_limit =
                                            LimitOrDefault(users, uid) ]
                /\ UNCHANGED << evaluations, ratings, confirms, queues,
                                sessions, result, audit >>
           ELSE SubmitWrites(uid, user_age, user_gender, user_education, image)

\* The requests: POST /api/start, /api/submit and /api/increase-limit.
\* A client starts under any nickname and demographics ...
StartSession ==
    \E uid_input \in UidInputs, user_age \in AgeInputs,
       user_gender \in GenderInputs, user_education \in EducationInputs :
        start_session(uid_input, user_age, user_gender, user_education)

\* The client submits an image of the catalog under the demographics it
\* started with, with or without its answers.
SubmitEvaluation ==
    \E uid \in { "" } \cup SessionIds, image \in images,
       phase1_choice \in { "", "A" }, answered \in BOOLEAN,
       demo \in SubmitDemographics :
        submit_evaluation(uid, demo.age, demo.gender, demo.education, image,
                          phase1_choice, answered)

IncreaseLimit ==
    \E uid \in SessionIds :
        /\ Requested
        /\ users' = increase_user_limit(users, uid, LIMIT_INCREMENT)
        /\ outcome' = [ Outcome("increase_user_limit", uid, "success", "new_limit")
                          EXCEPT !.user_limit = NewLimit(users, uid, LIMIT_INCREMENT) ]
        /\ UNCHANGED << evaluations, queues, sessions, ratings, result, audit,
                        confirms >>

\* ... or every client starts under its own nickname and the same, valid
\* demographics.
StartKnown ==
    \E uid \in SessionIds : start_session(uid, 30, "F", "BA")

\* The images the service has shown to the user: those assigned to it and
\* those it has evaluated.
Shown(uid) ==
    { image \in images :
        \/ image.path \in PendingPaths(StateOf(uid))
        \/ \E k \in 1..Len(evaluations) :
              /\ evaluations[k].user_id = uid
              /\ evaluations[k].image_path = image.path }

\* Such a client submits, with all its answers, an image it has been shown:
\* the one on its page, or once more one it has submitted (a request sent
\* twice).
SubmitShown ==
    \E uid \in SessionIds : \E image \in Shown(uid) :
        submit_evaluation(uid, 30, "F", "BA", image, "A", TRUE)

InitService ==
    Constructed(MaxRequests)

NextService ==
    \/ StartKnown
    \/ SubmitShown
    \/ IncreaseLimit

\* The service: the session functions on the two databases and the engine,
\* for clients that start with valid demographics.
SpecService == InitService /\ [][NextService]_vars

InitLogin ==
    Constructed(MaxLoginRequests)

NextLogin ==
    \/ StartSession
    \/ SubmitEvaluation
    \/ IncreaseLimit

\* The service for clients that start with any nickname and demographics.
SpecLogin == InitLogin /\ [][NextLogin]_vars

\* ------------------------------------------------------------------- raters

\* More users than there are queues, and a catalog of one image, so that every
\* user is after the same image.
Raters == { "r1", "r2", "r3", "r4", "r5", "r6", "r7" }

rater_images == { ImageRecord("s", "S") }

\* ImageSelectionSystem.__init__ from the one-image catalog: shuffled or not,
\* each queue holds the image.  The raters are not among the callers audit
\* follows.
InitRaters ==
    /\ images = rater_images
    /\ queues = [ q \in 1..NumQueues |-> << ImageRecord("s", "S") >> ]
    /\ sessions = << >>
    /\ ratings = [ p \in { i.path : i \in rater_images } |-> 0 ]
    /\ now = 0
    /\ result = Result("init", "", NoImage, 0)
    /\ audit = [ u \in SessionIds |-> AuditInit ]
    /\ confirms = [ p \in { i.path : i \in rater_images } |-> 0 ]
    /\ calls = 0
    /\ budget = MaxRaterCalls
    /\ boot = Booted(rater_images)
    /\ lock = FreeLock
    /\ pc = [ t \in Threads |-> IdlePc ]
    /\ NoService

\* The raters in the order in which they make their first call.
RaterOrder == << "r1", "r2", "r3", "r4", "r5", "r6", "r7" >>

\* The raters that hold a pending image.
ActiveRaters ==
    { k \in 1..Len(sessions) : sessions[k].pending_images # << >> }

\* A rater that has called before and not rated yet, or the next one to
\* arrive, asks for an image; at most MaxActiveRaters raters hold a pending
\* image at a time.
RaterGet ==
    /\ Serial
    /\ \E k \in 1..Len(RaterOrder) :
          /\ k <= Len(sessions) + 1
          /\ StateOf(RaterOrder[k]).seen_titles = {}
          /\ \/ k \in ActiveRaters
             \/ Cardinality(ActiveRaters) < MaxActiveRaters
          /\ get_next_image(RaterOrder[k])

\* submit_rating for an image that is pending for the caller.
RaterSubmit ==
    /\ Serial
    /\ \E k \in 1..Len(sessions) :
          \E j \in 1..Len(sessions[k].pending_images) :
              LET e == sessions[k].pending_images[j]
              IN  /\ ratings[e.path] < MaxRaterRatings
                  /\ SubmitRatingCall(sessions[k].session_id, e.path,
                                      e.image.poem_title)

\* The runs in which submit_rating confirms pending assignments only and
\* images return to the queues through check_timeouts only.
NextRaters ==
    \/ RaterGet
    \/ RaterSubmit
    \/ CheckTimeouts
    \/ Tick

SpecRaters == InitRaters /\ [][NextRaters]_vars

\* --------------------------------------------------------- requests at once

\* A thread inside submit_evaluation, past the test of rem_before and before
\* write_evaluation.
WritePc(uid, image) ==
    [ IdlePc EXCEPT !.at = "write", !.op = "submit_evaluation",
                    !.session = uid, !.image = image ]

\* A thread takes a complete submission and runs submit_evaluation as far as
\* the test of rem_before: it returns the limit error, or goes on to write.
\* remaining() reads under WRITE_LOCK and releases it before the test.
SubmitCheck ==
    \E t \in Threads : \E uid \in SessionIds : \E image \in images :
        /\ pc[t].at = "idle"
        /\ calls + Cardinality({ s \in Threads : pc[s].at # "idle" }) < budget
        /\ IF remaining(users, evaluations, uid) <= 0
           THEN /\ outcome' = [ SubmitError(uid, "limit", 0)
                                  EXCEPT !.user_limit = LimitOrDefault(users, uid) ]
                /\ calls' = calls + 1
                /\ UNCHANGED pc
           ELSE /\ pc' = [ pc EXCEPT ![t] = WritePc(uid, image) ]
                /\ UNCHANGED << outcome, calls >>
        /\ UNCHANGED << queues, sessions, ratings, now, result, audit, confirms,
                        budget, images, boot, lock, handed, users, evaluations >>

\* The thread goes on: write_evaluation, submit_rating, the next item, return.
SubmitWrite ==
    \E t \in Threads :
        /\ pc[t].at = "write"
        /\ SubmitWrites(pc[t].session, 30, "F", "BA", pc[t].image)
        /\ pc' = [ pc EXCEPT ![t] = IdlePc ]
        /\ calls' = calls + 1
        /\ UNCHANGED << now, budget, images, boot, lock, handed, users >>

InitRace == Constructed(MaxRaceRequests)

NextRace ==
    \/ SubmitCheck
    \/ SubmitWrite

\* The service with its requests served by threads: a step of another request
\* may come between the limit test and the write of a submit_evaluation.
SpecRace == InitRace /\ [][NextRace]_vars

\* ----------------------------------------------------------------- claims

\* The images held in the queues.
QueuedImages ==
    UNION { { queues[q][k] : k \in 1..Len(queues[q]) } : q \in 1..NumQueues }

\* The call that ran last was get_next_image(u) and it returned an image.
Returned(u) ==
    /\ result.op = "get_next_image"
    /\ result.session = u
    /\ result.image # NoImage

\* The call that ran last was get_next_image(u) and it returned None.
ReturnedNone(u) ==
    /\ result.op = "get_next_image"
    /\ result.session = u
    /\ result.image = NoImage

\* C1: no image path is in the pending_images of more than one session.
C1_NoDoubleAssignment ==
    \A i, j \in 1..Len(sessions) :
        i # j => PendingPaths(sessions[i]) \cap PendingPaths(sessions[j]) = {}

\* C2: a get_next_image of a caller never returns an image that an earlier
\* get_next_image returned to the same caller and that has neither been
\* submitted nor reclaimed since (it is still in the caller's pending_images).
C2_NoSameImageTwice ==
    [][ \A u \in SessionIds :
          (calls' # calls /\ Returned(u)')
              => result'.image.path \notin PendingPaths(StateOf(u)) ]_vars

\* C3: a caller that submits every returned image before its next
\* get_next_image is never returned the same poem title twice.
C3_NoPoemRepeat ==
    \A u \in SessionIds : audit[u].disciplined => ~audit[u].repeated

\* C3 witness: a disciplined caller has been returned images of both poem
\* titles while the other caller holds an assignment.
C3_Witness ==
    \E u, v \in SessionIds :
        /\ u # v
        /\ audit[u].disciplined
        /\ audit[u].returned_titles = PoemTitles
        /\ PendingPaths(StateOf(v)) # {}

\* C4: an image returned by get_next_image has a poem title outside the caller's
\* seen_titles and is recorded in the caller's pending_images; so no image of a
\* poem the caller has confirmed is returned, rated by the caller or not.
C4_ReturnedUnseenAndPending ==
    \A u \in SessionIds :
        Returned(u) =>
            /\ result.image.poem_title \notin StateOf(u).seen_titles
            /\ result.image.path \in PendingPaths(StateOf(u))
            /\ result.image.poem_title \notin audit[u].confirmed

\* C4 witness: the caller has confirmed poem P through one image, another image
\* of P that nobody has rated is queued, and get_next_image returned an image
\* of another poem.
C4_Witness ==
    \E u \in SessionIds :
        /\ Returned(u)
        /\ StateOf(u).seen_titles # {}
        /\ \E image \in QueuedImages : \E other \in all_images :
              /\ other.path # image.path
              /\ other.poem_title = image.poem_title
              /\ other.path \in StateOf(u).seen_paths
              /\ confirms[other.path] > 0
              /\ image.poem_title \in StateOf(u).seen_titles
              /\ image.poem_title \in audit[u].returned_titles
              /\ ratings[image.path] = 0

\* C5: an image returned by get_next_image has the least rating count among the
\* queued images whose poem title the caller has not seen.
C5_LeastRated ==
    \A u \in SessionIds :
        Returned(u) =>
            \A image \in QueuedImages :
                image.poem_title \notin StateOf(u).seen_titles
                    => ratings[result.image.path] <= ratings[image.path]

\* C6: get_next_image returns None only when every queued image has a poem
\* title the caller has seen.
C6_NoneOnlyWhenNothingEligible ==
    \A u \in SessionIds :
        ReturnedNone(u) =>
            \A image \in QueuedImages :
                image.poem_title \in StateOf(u).seen_titles

\* C7: get_next_image of a caller whose seen_titles is the set of all poem
\* titles of the catalog returns None.
C7_ExhaustionCorrectness ==
    \A u \in SessionIds :
        (result.op = "get_next_image" /\ result.session = u
            /\ StateOf(u).seen_titles = PoemTitles)
                => result.image = NoImage

\* C7 witness: get_next_image returned None to a caller that has seen every
\* poem title, with images in the queues.
C7_Witness ==
    \E u \in SessionIds :
        /\ ReturnedNone(u)
        /\ StateOf(u).seen_titles = PoemTitles
        /\ QueuedImages # {}

C9_MonotonicRatings ==
    /\ [](\A p \in Paths : ratings[p] = confirms[p])
    /\ [][ \A p \in Paths :
             IF calls' # calls /\ result'.op = "submit_rating"
                  /\ result'.image.path = p
             THEN ratings'[p] = ratings[p] + 1
             ELSE ratings'[p] = ratings[p] ]_vars

\* C9 witness: both callers have submitted a rating of the same image.
C9_Witness ==
    \E p \in Paths :
        /\ ratings[p] = 2
        /\ \A u \in SessionIds : p \in StateOf(u).seen_paths
        /\ result.op = "submit_rating"

\* C10: after submit_rating(u, image) the poem title is in u's seen_titles and
\* the image is not in u's pending_images; seen_titles and pending_images of
\* every other caller are as before.
C10_SubmitEffect ==
    [][ \A u \in SessionIds :
          (calls' # calls /\ result'.op = "submit_rating" /\ result'.session = u)
              => /\ result'.image.poem_title \in StateOf(u)'.seen_titles
                 /\ result'.image.path \notin PendingPaths(StateOf(u)')
                 /\ \A v \in SessionIds \ {u} :
                       /\ StateOf(v)'.seen_titles = StateOf(v).seen_titles
                       /\ StateOf(v)'.pending_images = StateOf(v).pending_images ]_vars

\* C10 witness: a caller has just submitted the image it was assigned, while
\* the other caller holds an assignment and has seen a poem.
C10_Witness ==
    \E u, v \in SessionIds :
        /\ u # v
        /\ result.op = "submit_rating"
        /\ result.session = u
        /\ result.image.poem_title \in audit[u].returned_titles
        /\ audit[u].awaiting = NoImage
        /\ PendingPaths(StateOf(v)) # {}
        /\ StateOf(v).seen_titles # {}

\* C11: after every submit_rating of an image that was pending for the caller,
\* the image is in the selection structure again (some queue holds it), so that
\* get_next_image can hand it to a user who has not seen its poem.
C11_ConfirmedImageQueuedAgain ==
    result.op = "submit_rating" => result.image \in QueuedImages

\* C12: submit_rating(u, image) for an image that is not in u's pending_images
\* is rejected: the ledger and u's seen_titles are as before the call.
C12_UnassignedSubmitRejected ==
    [][ \A u \in SessionIds :
          ( /\ calls' # calls
            /\ result'.op = "submit_rating"
            /\ result'.session = u
            /\ result'.image.path \notin PendingPaths(StateOf(u)) )
              => /\ ratings' = ratings
                 /\ StateOf(u)'.seen_titles = StateOf(u).seen_titles ]_vars

\* get_next_image called for this session again and again, n times at most,
\* returns the image of this path in one of the calls.
RECURSIVE ObtainedWithin(_, _, _, _)
ObtainedWithin(qs, session, path, n) ==
    IF n = 0 THEN FALSE
    ELSE LET r == TryQueues(qs, session, 1)
         IN  IF r.image = NoImage THEN FALSE
             ELSE IF r.image.path = path THEN TRUE
             ELSE ObtainedWithin(r.queues, r.session, path, n - 1)

\* C13: check_timeouts(t) takes every entry that has been pending for a user for
\* longer than t out of that user's pending_images, leaves its ledger count as it
\* was and puts the image back into a queue, where get_next_image of the same
\* user reaches it again unless the user has seen its poem.
C13_ReclaimRestoresAvailability ==
    [][ \A t \in TimeoutChoices :
          (calls' # calls /\ result'.op = "check_timeouts" /\ check_timeouts(t)) =>
            \A u \in SessionIds :
              \A k \in 1..Len(StateOf(u).pending_images) :
                LET e == StateOf(u).pending_images[k]
                IN  now - e.assigned_time > t =>
                      /\ e.path \notin PendingPaths(StateOf(u)')
                      /\ ratings'[e.path] = ratings[e.path]
                      /\ e.image \in QueuedImages'
                      /\ e.image.poem_title \notin StateOf(u).seen_titles =>
                            ObtainedWithin(queues', StateOf(u)', e.path,
                                           NumQueues * Cardinality(images)) ]_vars

\* The number of places of a queue that hold the image.
Occurrences(queue, image) ==
    Cardinality({ k \in 1..Len(queue) : queue[k] = image })

\* The callers whose pending entry for the image, taken from queue q, is older
\* than t.
HoldersTimedOut(image, q, t) ==
    { u \in SessionIds :
        \E k \in 1..Len(StateOf(u).pending_images) :
            LET e == StateOf(u).pending_images[k]
            IN  /\ e.path = image.path
                /\ e.queue_num = q
                /\ now - e.assigned_time > t }

\* C14: check_timeouts(t) reclaims only entries older than t: an entry whose age
\* is at most t is still pending for the same user afterwards, and a queue gains
\* an image only for the entries older than t that were taken from it.
C14_ReclaimsOnlyOlderThanTimeout ==
    [][ \A t \in TimeoutChoices :
          (calls' # calls /\ result'.op = "check_timeouts" /\ check_timeouts(t)) =>
            /\ \A u \in SessionIds :
                 \A k \in 1..Len(StateOf(u).pending_images) :
                   LET e == StateOf(u).pending_images[k]
                   IN  now - e.assigned_time <= t =>
                         \E j \in 1..Len(StateOf(u)'.pending_images) :
                             StateOf(u)'.pending_images[j] = e
            /\ \A q \in 1..NumQueues : \A image \in images :
                 Occurrences(queues'[q], image) =
                     Occurrences(queues[q], image)
                         + Cardinality(HoldersTimedOut(image, q, t)) ]_vars

\* C14 witness: check_timeouts has just reclaimed the assignment of one caller
\* and left pending the assignment another caller received after it, whose age
\* is within every timeout.
C14_Witness ==
    \E u, v \in SessionIds :
        /\ u # v
        /\ calls = 3
        /\ result.op = "check_timeouts"
        /\ audit[u].awaiting # NoImage
        /\ PendingPaths(StateOf(u)) = {}
        /\ audit[v].awaiting # NoImage
        /\ \E k \in 1..Len(StateOf(v).pending_images) :
              /\ StateOf(v).pending_images[k].path = audit[v].awaiting.path
              /\ now - StateOf(v).pending_images[k].assigned_time = 0

\* The number of get_next_image calls made so far in a run of get_next_image and
\* submit_rating calls.
GetsMade == calls - SumRatings(confirms, DOMAIN confirms)

\* C15: with n images of n pairwise distinct poem titles and one user alone who
\* alternates get_next_image and submit_rating, each of the first n
\* get_next_image calls returns an image, the titles returned so far are
\* pairwise distinct, and call n+1 returns None.
C15_DistinctPoemsThenExhausted ==
    result.op = "get_next_image" =>
        /\ GetsMade <= Cardinality(images) =>
              /\ result.image # NoImage
              /\ ~audit["u1"].repeated
              /\ Cardinality(audit["u1"].returned_titles) = GetsMade
        /\ GetsMade = Cardinality(images) + 1 => result.image = NoImage

\* C15 witness: the user has been returned all MaxSoloImages poems of the
\* catalog, has submitted each, and the next call has just returned None.
C15_Witness ==
    /\ Cardinality(images) = MaxSoloImages
    /\ ReturnedNone("u1")
    /\ GetsMade = MaxSoloImages + 1
    /\ audit["u1"].returned_titles = { i.poem_title : i \in images }
    /\ audit["u1"].confirmed = { i.poem_title : i \in images }

\* C16: restarts of the process included, get_next_image never returns to a
\* user an image of a poem title the user has confirmed with submit_rating:
\* the seen-set is stored by submit_rating and loaded with the user's state.
C16_NoPoemRepeatAcrossRestart ==
    \A u \in SessionIds :
        Returned(u) => result.image.poem_title \notin audit[u].confirmed

\* C17: when the engine has just been constructed, the ledger count of every
\* catalog image is the number of its stored ratings (0 for an image without
\* stored ratings).
C17_CountsLoadedAtConstruction ==
    result.op = "init" =>
        \A image \in images :
            ratings[image.path] =
                IF image.path \in DOMAIN get_all_image_rating_counts
                THEN get_all_image_rating_counts[image.path]
                ELSE 0

EngineWritten ==
    queues' # queues \/ ratings' # ratings \/ sessions' # sessions

C21_NoPathHandedOutTwice ==
    Len(handed) < Cardinality(images) =>
        \A i, j \in 1..Len(handed) : handed[i] = handed[j] => i = j

\* The while loop of get_next_image over one queue ends at a hard conflict
\* (SCENARIO C: the popped image is put back and the queue is left).
RECURSIVE ScanEndsHard(_, _, _, _)
ScanEndsHard(queue, session, attempts, max_attempts) ==
    IF attempts >= max_attempts \/ Len(queue) = 0 THEN FALSE
    ELSE LET image == Head(queue)
         IN  IF IsNewContent(session, image) THEN FALSE
             ELSE IF IsSoftConflict(session, image)
             THEN ScanEndsHard(Append(Tail(queue), image),
                               mark_checked(session, image),
                               attempts + 1, max_attempts)
             ELSE TRUE

\* The queues, from queue_num on, that get_next_image leaves at a hard conflict
\* when it is called for the session in this state.
RECURSIVE HardBreaks(_, _, _)
HardBreaks(qs, session, queue_num) ==
    IF queue_num > NumQueues THEN {}
    ELSE LET r == ScanQueue(qs[queue_num], session, 0, Len(qs[queue_num]),
                            queue_num)
             here == IF ScanEndsHard(qs[queue_num], session, 0,
                                     Len(qs[queue_num]))
                     THEN { queue_num } ELSE {}
         IN  IF r.found THEN here
             ELSE here \cup HardBreaks(qs, r.session, queue_num + 1)

\* C29: a queue that get_next_image leaves at a hard conflict holds only images
\* whose poem title the caller has seen.
C29_HardConflictMeansQueueCycled ==
    [][ \A u \in SessionIds :
          (calls' # calls /\ result'.op = "get_next_image"
                /\ result'.session = u) =>
            \A q \in HardBreaks(queues, StateOf(u), 1) :
                \A k \in 1..Len(queues[q]) :
                    queues[q][k].poem_title \in StateOf(u).seen_titles ]_vars

\* The queues that hold an image whose poem title the session has not seen.
QueuesWithNewContent(qs, session) ==
    { q \in 1..NumQueues :
        \E k \in 1..Len(qs[q]) : IsNewContent(session, qs[q][k]) }

\* C30: the queue number get_next_image returns with an image is the lowest
\* number of a queue that held an image whose poem title the caller had not
\* seen.
C30_LowestQueueWithNewContent ==
    [][ \A u \in SessionIds :
          (calls' # calls /\ result'.op = "get_next_image"
                /\ result'.session = u /\ result'.image # NoImage) =>
            /\ result'.queue_num \in QueuesWithNewContent(queues, StateOf(u))
            /\ \A q \in QueuesWithNewContent(queues, StateOf(u)) :
                  result'.queue_num <= q ]_vars

\* C22: the evaluations table holds no two rows with the same user_id and
\* image_path.
C22_NoDuplicateEvaluation ==
    \A j, k \in 1..Len(evaluations) :
        ( /\ evaluations[j].user_id = evaluations[k].user_id
          /\ evaluations[j].image_path = evaluations[k].image_path ) => j = k

\* The fields of a start request, in the order the claim gives, and whether
\* these inputs have the field missing or invalid.
FieldOrder == << "nickname", "age", "gender", "education" >>

FieldInvalid(field, uid_input, user_age, user_gender, user_education) ==
    CASE field = "nickname" -> Strip(uid_input) = ""
      [] field = "age" -> user_age = None \/ ~(user_age > 0)
      [] field = "gender" -> Strip(user_gender) = ""
      [] field = "education" -> Strip(user_education) = ""

\* C23: for inputs with a missing or invalid field the validation of
\* start_session names the first such field in the order nickname, age,
\* gender, education and no other; every start_session that ends in such an
\* error returns remaining 0, stores no user and assigns no image.
C23_FirstInvalidFieldReported ==
    /\ [](\A uid_input \in UidInputs, user_age \in AgeInputs,
             user_gender \in GenderInputs, user_education \in EducationInputs :
            \A k \in 1..Len(FieldOrder) :
              ( /\ FieldInvalid(FieldOrder[k], uid_input, user_age,
                                user_gender, user_education)
                /\ \A j \in 1..(k - 1) :
                      ~FieldInvalid(FieldOrder[j], uid_input, user_age,
                                    user_gender, user_education) )
              => MissingField(uid_input, user_age, user_gender,
                              user_education) = FieldOrder[k])
    /\ [][ ( /\ outcome'.op = "start_session"
             /\ calls' # calls
             /\ \E k \in 1..Len(FieldOrder) : outcome'.message = FieldOrder[k] )
           =>
           ( /\ outcome'.status = "error"
             /\ outcome'.remaining = 0
             /\ outcome'.image = NoImage
             /\ users' = users
             /\ sessions' = sessions
             /\ queues' = queues ) ]_vars

\* C23 witness: start_session has answered a request under the nickname u1
\* with the age error, and no user u1 is stored.
C23_Witness ==
    /\ outcome.op = "start_session"
    /\ outcome.status = "error"
    /\ outcome.message = "age"
    /\ outcome.uid = "u1"
    /\ "u1" \notin DOMAIN users

\* A start_session step that got past the validation, for a nickname that had
\* stored demographics.
StartOfStoredUser ==
    /\ outcome'.op = "start_session"
    /\ calls' # calls
    /\ \A k \in 1..Len(FieldOrder) : outcome'.message # FieldOrder[k]
    /\ get_user_demographics(users, evaluations, outcome'.uid).found

\* The inputs equal the demographics stored for the nickname: the same age, and
\* the same gender and education once both sides are trimmed.
EqualsStored(uid_input, user_age, user_gender, user_education) ==
    LET demo == get_user_demographics(users, evaluations, Strip(uid_input))
    IN  /\ user_age = demo.age
        /\ Strip(user_gender) = Strip(demo.gender)
        /\ Strip(user_education) = Strip(demo.education)

\* The step returns the name_taken error, assigns no image and leaves the users
\* table as it was.
NameTaken ==
    /\ outcome'.status = "error"
    /\ outcome'.name_taken
    /\ outcome'.image = NoImage
    /\ queues' = queues
    /\ sessions' = sessions
    /\ users' = users

\* C24 as stated: start_session for a nickname with stored demographics returns
\* success exactly if the inputs equal the stored demographics, and else
\* the name_taken error with no image assigned and the users table unchanged.
C24_ResumeIffDemographicsMatch ==
    [][ StartOfStoredUser =>
          \A uid_input \in UidInputs, user_age \in AgeInputs,
             user_gender \in GenderInputs, user_education \in EducationInputs :
            start_session(uid_input, user_age, user_gender, user_education) =>
              IF EqualsStored(uid_input, user_age, user_gender, user_education)
              THEN outcome'.status = "success"
              ELSE NameTaken ]_vars

\* C24 as amended: start_session with valid inputs for a nickname with stored
\* demographics is let through to the limit test and the assignment (success,
\* limit_reached or all_images_seen, never name_taken) exactly if the inputs
\* equal the stored demographics, and else returns the name_taken error with no
\* image assigned and the users table unchanged.
C24_LetThroughIffDemographicsMatch ==
    [][ StartOfStoredUser =>
          \A uid_input \in UidInputs, user_age \in AgeInputs,
             user_gender \in GenderInputs, user_education \in EducationInputs :
            start_session(uid_input, user_age, user_gender, user_education) =>
              IF EqualsStored(uid_input, user_age, user_gender, user_education)
              THEN /\ outcome'.status \in
                         { "success", "limit_reached", "all_images_seen" }
                   /\ ~outcome'.name_taken
                   /\ users' = users
              ELSE NameTaken ]_vars

\* C24 witness: a user stored with a gender and an education in padded form has
\* been let through and welcomed back with an image.
C24_Witness ==
    /\ outcome.op = "start_session"
    /\ outcome.status = "success"
    /\ outcome.message = "welcome_back"
    /\ outcome.image # NoImage
    /\ outcome.uid \in DOMAIN users
    /\ users[outcome.uid].gender = " F "
    /\ users[outcome.uid].education = " BA "

\* The limit in force for a user: the custom limit of the users row if one is
\* set, else the default.
LimitInForce(uid) ==
    IF uid \in DOMAIN users /\ users[uid].user_limit # None
    THEN users[uid].user_limit ELSE MAX_PER_USER

\* A start_session step that got past the validation and the demographics test
\* for a stored user whose completed count had reached the limit.
StartAtLimit ==
    /\ outcome'.op = "start_session"
    /\ calls' # calls
    /\ outcome'.message \in { "limit_reached", "all_images_seen",
                              "welcome_back", "welcome" }
    /\ get_user_demographics(users, evaluations, outcome'.uid).found
    /\ user_count(evaluations, outcome'.uid)
         >= LimitInForce(outcome'.uid)

C26_CustomLimitReachedIsError ==
    [][ ( /\ StartAtLimit
          /\ get_user_limit(users, outcome'.uid) # None )
        => ( /\ outcome'.status = "error"
             /\ outcome'.message = "limit" ) ]_vars

\* An increase_user_limit step for a user with a row in the users table.
IncreaseOfStored ==
    /\ outcome'.op = "increase_user_limit"
    /\ calls' # calls
    /\ outcome'.uid \in DOMAIN users

\* A start_session step with matching demographics that directly follows the
\* increase_user_limit of the same, stored user.
StartAfterIncrease ==
    /\ outcome'.op = "start_session"
    /\ calls' # calls
    /\ outcome'.message \in { "limit_reached", "all_images_seen",
                              "welcome_back", "welcome" }
    /\ outcome.op = "increase_user_limit"
    /\ outcome.uid = outcome'.uid
    /\ outcome.uid \in DOMAIN users

\* The increase raises the limit in force by exactly the increment, counted
\* from the default where the row held no custom limit.
RaisedByIncrement ==
    /\ outcome'.uid \in DOMAIN users'
    /\ users'[outcome'.uid].user_limit
         = LimitInForce(outcome'.uid) + LIMIT_INCREMENT
    /\ outcome'.user_limit = users'[outcome'.uid].user_limit

\* C27 as stated: increase_user_limit for a stored user raises the limit in
\* force by exactly the increment, and the start_session with matching
\* demographics that follows succeeds with user_limit the new limit and
\* remaining the new limit minus the completed count.
C27_IncreaseThenStartSucceeds ==
    [][ /\ IncreaseOfStored => RaisedByIncrement
        /\ StartAfterIncrease =>
             /\ outcome'.status = "success"
             /\ outcome'.user_limit = outcome.user_limit
             /\ outcome'.remaining
                  = outcome.user_limit
                      - user_count(evaluations, outcome'.uid) ]_vars

\* C27 as amended: increase_user_limit for a stored user raises the limit in
\* force by exactly the increment, and the start_session with matching
\* demographics that follows is never turned away at the limit: its remaining
\* is the new limit minus the completed count, and it returns success with an
\* image and user_limit the new limit, or all_images_seen where the engine has
\* no image for the user.
C27_IncreaseThenStartNotAtLimit ==
    [][ /\ IncreaseOfStored => RaisedByIncrement
        /\ StartAfterIncrease =>
             /\ outcome'.status \in { "success", "all_images_seen" }
             /\ outcome'.remaining
                  = outcome.user_limit
                      - user_count(evaluations, outcome'.uid)
             /\ outcome'.remaining > 0
             /\ outcome'.status = "success" =>
                  /\ outcome'.user_limit = outcome.user_limit
                  /\ outcome'.image # NoImage ]_vars

\* C27 witness: a user who had reached the default limit has had the limit
\* raised and started again with an image, one evaluation left.
C27_Witness ==
    /\ outcome.op = "start_session"
    /\ outcome.status = "success"
    /\ outcome.image # NoImage
    /\ outcome.uid \in DOMAIN users
    /\ outcome.user_limit = MAX_PER_USER + LIMIT_INCREMENT
    /\ users[outcome.uid].user_limit = MAX_PER_USER + LIMIT_INCREMENT
    /\ user_count(evaluations, outcome.uid) = MAX_PER_USER
    /\ outcome.remaining = LIMIT_INCREMENT

\* A start_session or submit_evaluation step that got as far as the engine:
\* the function was let through and evaluations remained after its writes.
ReachedEngine ==
    /\ calls' # calls
    /\ \/ /\ outcome'.op = "start_session"
          /\ outcome'.message \in { "limit_reached", "all_images_seen",
                                    "welcome_back", "welcome" }
       \/ /\ outcome'.op = "submit_evaluation"
          /\ evaluations' # evaluations
    /\ remaining(users', evaluations', outcome'.uid) > 0

\* The sessions the engine holds when such a step asks it for the next image:
\* those of the state before, after the submit_rating of the step if it made one.
SessionsAtFetch ==
    IF outcome'.op = "submit_evaluation"
    THEN LET row == evaluations'[Len(evaluations')]
             image == CHOOSE i \in images : i.path = row.image_path
         IN  SubmitRatingOn(sessions, ratings, outcome'.uid, image).sessions
    ELSE sessions

\* The engine reports exhaustion to the step.
EngineExhausted ==
    GetNextImageOn(queues, SessionsAtFetch, outcome'.uid).image = NoImage

\* C28: when the engine reports exhaustion for a user, start_session and
\* submit_evaluation return the status all_images_seen with no image, and the
\* engine is left as that one get_next_image left it: the assignment is not
\* tried again.
C28_ExhaustionSurfacedAsAllImagesSeen ==
    [][ ( ReachedEngine /\ EngineExhausted ) =>
          LET once == GetNextImageOn(queues, SessionsAtFetch, outcome'.uid)
          IN  /\ outcome'.status = "all_images_seen"
              /\ outcome'.image = NoImage
              /\ result' = Result("get_next_image", outcome'.uid, NoImage,
                                  once.queue_num)
              /\ queues' = once.queues
              /\ sessions' = once.sessions ]_vars

\* C28 witness: a submit_evaluation that wrote its row with evaluations left
\* has been answered with all_images_seen.
C28_Witness ==
    /\ outcome.op = "submit_evaluation"
    /\ outcome.status = "all_images_seen"
    /\ outcome.remaining > 0
    /\ result.op = "get_next_image"
    /\ result.image = NoImage
    /\ user_count(evaluations, outcome.uid) > 0

\* A get_next_image step.
GetStep ==
    /\ calls' # calls
    /\ result'.op = "get_next_image"

\* 1 if the step returned the image from queue q, else 0.
TakenFrom(image, q) ==
    IF result'.image = image /\ result'.queue_num = q THEN 1 ELSE 0

\* C31: get_next_image drops no image it skipped: after the call every queue
\* holds the images it held before, each as often as before, less the returned
\* image in the queue it was returned from (nothing less after None); the
\* ledger and the state of every other user are as before.
C31_SkippedImagesKept ==
    [][ GetStep =>
          /\ \A q \in 1..NumQueues :
               /\ \A image \in images :
                    Occurrences(queues'[q], image)
                        = Occurrences(queues[q], image) - TakenFrom(image, q)
               /\ Len(queues'[q])
                    = Len(queues[q])
                        - (IF result'.queue_num = q THEN 1 ELSE 0)
          /\ result'.image = NoImage => result'.queue_num = 0
          /\ ratings' = ratings
          /\ \A k \in 1..Len(sessions') :
               sessions'[k].session_id # result'.session =>
                   /\ k <= Len(sessions)
                   /\ sessions'[k] = sessions[k] ]_vars

\* C31 witness: a caller has been returned b from queue 1 past a2, which it has
\* skipped as a soft conflict (a2 is in its seen_paths and was never rated) and
\* which is still in queue 1.
C31_Witness ==
    /\ result.op = "get_next_image"
    /\ result.image = ImageRecord("b", "Q")
    /\ result.queue_num = 1
    /\ confirms["a2"] = 0
    /\ "a2" \in StateOf(result.session).seen_paths
    /\ Occurrences(queues[1], ImageRecord("a2", "P")) = 1

\* The size of the selection structure: the entries of the six queues.
RECURSIVE StructureSize(_, _)
StructureSize(qs, queue_num) ==
    IF queue_num > NumQueues THEN 0
    ELSE Len(qs[queue_num]) + StructureSize(qs, queue_num + 1)

\* A user state with the given seen sets.
UserWith(seen_titles, seen_paths) ==
    [ SessionState("u") EXCEPT !.seen_titles = seen_titles,
                               !.seen_paths = seen_paths ]

\* C32: in every state the queues can be in, a get_next_image call makes at
\* most twice as many pop attempts as the queues hold entries, whatever the
\* seen_titles and seen_paths of the user.
C32_PopAttemptsBounded ==
    \A seen_titles \in SUBSET PoemTitles : \A seen_paths \in SUBSET Paths :
        TryPops(queues, UserWith(seen_titles, seen_paths), 1)
            <= 2 * StructureSize(queues, 1)

\* C32 witness: after a get_next_image the first queue holds more than one
\* entry, and for some choice of seen sets a call pops every entry of the first
\* queue and one entry of each queue after it.
C32_Witness ==
    /\ result.op = "get_next_image"
    /\ Len(queues[1]) > 1
    /\ \E seen_titles \in SUBSET PoemTitles : \E seen_paths \in SUBSET Paths :
         TryPops(queues, UserWith(seen_titles, seen_paths), 1)
             = Len(queues[1]) + NumQueues - 1

\* A check_timeouts or handle_timeout step.
ReclaimStep ==
    /\ calls' # calls
    /\ result'.op \in { "check_timeouts", "handle_timeout" }

\* The pending entries the step reclaimed, each with the index of its session.
Reclaimed ==
    { ke \in UNION { { << k, sessions[k].pending_images[j] >> :
                         j \in 1..Len(sessions[k].pending_images) } :
                     k \in 1..Len(sessions) } :
        ke[2].path \notin PendingPaths(sessions'[ke[1]]) }

\* The entries the step reclaimed into queue q.
ReclaimedInto(q) == { ke \in Reclaimed : ke[2].queue_num = q }

\* The image of an entry is pending for and marked seen by its user no more.
GivenUp(ke) ==
    /\ ke[2].path \notin PendingPaths(sessions'[ke[1]])
    /\ ke[2].path \notin sessions'[ke[1]].seen_paths

\* C33 as stated: after check_timeouts or handle_timeout has reclaimed image x,
\* assigned to a user from queue q, x is the first element of queue q, x is not
\* in the user's pending_images or seen_paths, and no other queue has changed.
C33_ReclaimedToHeadOfItsQueue ==
    [][ ReclaimStep =>
          \A ke \in Reclaimed :
            /\ queues'[ke[2].queue_num] # << >>
            /\ Head(queues'[ke[2].queue_num])
                 = ImageRecord(ke[2].path, ke[2].image.poem_title)
            /\ GivenUp(ke)
            /\ \A q \in 1..NumQueues :
                 q # ke[2].queue_num => queues'[q] = queues[q] ]_vars

\* C33 as amended: after check_timeouts or handle_timeout every queue is its
\* former content behind the images reclaimed into it (so a reclaimed image is
\* ahead of all that was queued, and first if it is the only one reclaimed into
\* its queue), a reclaimed image is not in its user's pending_images or
\* seen_paths, and a queue into which nothing was reclaimed has not changed.
C33_ReclaimedAheadInItsQueue ==
    [][ ReclaimStep =>
          /\ \A q \in 1..NumQueues :
               LET n == Cardinality(ReclaimedInto(q))
               IN  /\ Len(queues'[q]) = Len(queues[q]) + n
                   /\ SubSeq(queues'[q], n + 1, Len(queues'[q])) = queues[q]
                   /\ \A ke \in ReclaimedInto(q) :
                        \E j \in 1..n :
                            queues'[q][j]
                                = ImageRecord(ke[2].path, ke[2].image.poem_title)
          /\ \A ke \in Reclaimed : GivenUp(ke) ]_vars

\* C33 witness: one check_timeouts has reclaimed the assignments of two callers,
\* both taken from queue 1, whose first two elements they now are.
C33_Witness ==
    \E u, v \in SessionIds :
        /\ u # v
        /\ result.op = "check_timeouts"
        /\ calls = 3
        /\ audit[u].awaiting # NoImage
        /\ audit[v].awaiting # NoImage
        /\ PendingPaths(StateOf(u)) = {}
        /\ PendingPaths(StateOf(v)) = {}
        /\ { queues[1][1], queues[1][2] }
             = { audit[u].awaiting, audit[v].awaiting }

\* C34: the ledger holds exactly one entry per image of the catalog at all
\* times: no operation, submit_rating with an arbitrary image path included,
\* creates an entry.
C34_LedgerKeysFixed ==
    DOMAIN ratings = { image.path : image \in images }

\* A submit_evaluation step of a user who had no evaluation left: as many rows
\* stored as the limit in force allows, or more.
SubmitAtQuotaZero ==
    /\ calls' # calls
    /\ outcome'.op = "submit_evaluation"
    /\ user_count(evaluations, outcome'.uid) >= LimitInForce(outcome'.uid)

\* C35: submit_evaluation for a user whose remaining quota is 0 returns an
\* error and changes nothing: no row is written, no rating is counted, the
\* seen sets and pending images of the users are as before, and no image is
\* assigned.
C35_SubmitAtQuotaZeroChangesNothing ==
    [][ SubmitAtQuotaZero =>
          /\ outcome'.status = "error"
          /\ outcome'.image = NoImage
          /\ evaluations' = evaluations
          /\ users' = users
          /\ ratings' = ratings
          /\ sessions' = sessions
          /\ queues' = queues ]_vars

\* C35 witness: a complete submission of a user with as many rows as the limit
\* has been turned down with the limit message.
C35_Witness ==
    /\ outcome.op = "submit_evaluation"
    /\ outcome.status = "error"
    /\ outcome.message = "limit"
    /\ user_count(evaluations, outcome.uid) = MAX_PER_USER
    /\ outcome.user_limit = MAX_PER_USER

\* C36: get_next_image hands out no image on the strength of a stale entry.
\* In the runs without reclaims every entry of the queues was made at load,
\* when the count of its image was 0; such an entry is stale once the ledger
\* counts a rating for the image, so a returned image has no rating yet.
C36_NoStaleEntryHandedOut ==
    [][ ( GetStep /\ result'.image # NoImage ) =>
          ratings[result'.image.path] = 0 ]_vars

\* The users whose pending entry for the image records queue q.
HoldersFrom(image, q) ==
    { k \in 1..Len(sessions) :
        \E j \in 1..Len(sessions[k].pending_images) :
            /\ sessions[k].pending_images[j].path = image.path
            /\ sessions[k].pending_images[j].queue_num = q }

\* C37: for every image and every queue, the occurrences of the image in the
\* queue plus the users whose pending entry for the image records that queue
\* are at most 1.
C37_PerQueueExclusivity ==
    \A image \in images : \A q \in 1..NumQueues :
        Occurrences(queues[q], image) + Cardinality(HoldersFrom(image, q)) <= 1

\* C37 witness: check_timeouts has run, and an image that was taken from queue
\* 1 and then, still pending, from another queue is back in that other queue
\* alone: queue 1 holds it no more and no user holds it.
C37_Witness ==
    /\ result.op = "check_timeouts"
    /\ \E image \in images :
         /\ ratings[image.path] = 0
         /\ Occurrences(queues[1], image) = 0
         /\ \A q \in 1..NumQueues : HoldersFrom(image, q) = {}
         /\ \A q \in 2..NumQueues : Occurrences(queues[q], image) = 1

\* C38: when submit_rating is called for images pending for the caller only,
\* no image has more ratings than there are queues, six.
C38_AtMostSixRatings ==
    \A p \in DOMAIN ratings : ratings[p] <= NumQueues

\* C38 witness: six raters have rated the image and the seventh has asked for
\* an image and been returned None.
C38_Witness ==
    /\ ratings["s"] = NumQueues
    /\ result.op = "get_next_image"
    /\ result.session = "r7"
    /\ result.image = NoImage

\* The number of queues that hold the image.
QueuesHolding(image) ==
    Cardinality({ q \in 1..NumQueues : Occurrences(queues[q], image) > 0 })

\* No assignment is pending.
NothingPending ==
    \A k \in 1..Len(sessions) : sessions[k].pending_images = << >>

\* C40: when submit_rating is called for pending images only and images return
\* to the queues through check_timeouts only, then in every state in which no
\* assignment is pending the number of queues holding an image plus the
\* ratings of the image is six, for every image.
C40_NoQueueSlotLost ==
    NothingPending =>
        \A image \in images :
            QueuesHolding(image) + ratings[image.path] = NumQueues

\* C39: a user never has more evaluations stored than the limit in force for
\* the user, also when submit_evaluation requests of the user are served at the
\* same time.
C39_EvaluationsWithinLimit ==
    \A uid \in SessionIds :
        user_count(evaluations, uid) <= LimitInForce(uid)

====
